---- MODULE Spec2Model ----
(***************************************************************************)
(* downwardlab experiment scripts: the confirmation prompt of              *)
(* scripts/lib/prompt_utils.py and the create / delete commands of         *)
(* scripts/new_experiment.py and scripts/delete_experiment.py.             *)
(*                                                                         *)
(* Strings that the code inspects character by character (responses and    *)
(* lexicon tokens, which go through str.lower) are sequences of character  *)
(* codes.  Paths are sequences of path segments.                           *)
(***************************************************************************)
EXTENDS Integers, Sequences, FiniteSets, TLC

VARIABLES
    \* ConfirmationPrompt object and the frame of its __call__
    affirmative,      \* _responses.affirmative
    negative,         \* _responses.negative
    case_sensitive,   \* _responses.case_sensitive
    max_attempts,     \* self.max_attempts: None or Some(int)
    attempt,          \* local 'attempt' of __call__
    response,         \* local 'response' of __call__ (None before the first read)
    gate,             \* position of __call__: "idle", "prompting", "returned", "raised"
    rval,             \* Some(value returned by __call__), None when it has not returned
    \* the running command
    pc,               \* "shell", "overwrite_prompt", "mkvirtualenv", "delete_prompt", "rmvirtualenv"
    cmd,              \* "none", "create", "delete"
    experiment_name,  \* sys.argv[1]
    expdir,           \* the resolved workspace path of the running command
    exit_status,      \* Some(exit status of the last command), None while one runs
    out,              \* what the running command has printed and called, in order
    \* the world the commands act on
    lab,              \* the directory that carries the downward/ and VAL/ markers
    markers,          \* directory -> what it holds of downward/fast-downward.py and VAL/validate
    fs,               \* existing directories: path -> set of files in it
    fs0,              \* fs as it was when the running command started
    venvs,            \* virtualenvs that exist
    hookfiles,        \* env name -> hook name -> None or Some(file)
    hookfiles0,       \* hookfiles as it was when the running command started
    WORKON_HOME,      \* os.getenv('WORKON_HOME'): None or Some(path)
    \* the interactive shell that enters and leaves a virtualenv
    shenv,            \* shell variable -> None (unset) or Some(value)
    shenv0,           \* shenv as it was before the virtualenv was entered
    phase,            \* "none", "outside", "entering", "active", "leaving", "left"
    preactivate_sourced, \* whether preactivate acts on the shell itself or on a child process
    \* a Prompt object
    prompt_arg,       \* the 'text' argument of Prompt.__init__
    prompt_text,      \* self.text: None before construction, then Some(text)
    \* a call of downwardlab_home
    home_path,        \* the 'path' argument
    home_called,      \* whether the call has ended
    home_rval         \* Some(path returned), None for FileNotFoundError or before the call

gatevars == <<affirmative, negative, case_sensitive, max_attempts, attempt, response, gate, rval>>
cmdvars  == <<pc, cmd, experiment_name, expdir, exit_status>>
envvars  == <<lab, markers, fs, fs0, venvs, hookfiles, hookfiles0, WORKON_HOME>>
shellvars == <<shenv, shenv0, phase, preactivate_sourced>>
textvars == <<prompt_arg, prompt_text>>
homevars == <<home_path, home_called, home_rval>>
vars     == <<gatevars, cmdvars, out, envvars, shellvars, textvars, homevars>>

\* Optional values: None is the empty tuple, a present value v is <<v>>
None == <<>>
Some(v) == <<v>>
Val(o) == o[1]

-----------------------------------------------------------------------------
(* Bounds of the model *)

\* largest number of tokens in the affirmative (or negative) collection
MaxLexicon == 2
\* largest max_attempts tried; also caps the retries when max_attempts is None
MaxAttemptsBound == 3
\* the longest display string given to Prompt
MaxTextLen == 4
\* the depth of the deepest directory that downwardlab_home is started from
MaxDepth == 3

-----------------------------------------------------------------------------
(* Strings as sequences of character codes *)

s_yes == <<121, 101, 115>>
s_Yes == <<89, 101, 115>>
s_no  == <<110, 111>>
s_NO  == <<78, 79>>
s_y   == <<121>>
s_empty == <<>>

\* the lines a user may type, and the tokens a lexicon may hold
Tokens == {s_yes, s_Yes, s_no, s_NO, s_y, s_empty}

\* str.lower on one ASCII character
lower_char(c) == IF c >= 65 /\ c <= 90 THEN c + 32 ELSE c

\* str.lower
lower(s) == [i \in 1..Len(s) |-> lower_char(s[i])]

-----------------------------------------------------------------------------
(* ConfirmationPrompt._ResponseHandling *)

valid == affirmative \cup negative

\* check_element that folds the response but not the tokens of the collection
check_element_folds_elem_only(elem, collection) ==
    LET e == IF case_sensitive = FALSE THEN lower(elem) ELSE elem
    IN  e \in collection

check_element(elem, collection) ==
    LET e == IF case_sensitive = FALSE THEN lower(elem) ELSE elem
        C == IF case_sensitive = FALSE THEN {lower(c) : c \in collection} ELSE collection
    IN  e \in C

is_valid(resp) == check_element(resp, valid)

\* is_affirmative in which the negative set has priority
is_affirmative_unless_negative(resp) ==
    check_element(resp, affirmative) /\ ~check_element(resp, negative)

\* is_affirmative that takes every valid response for an affirmative one
is_affirmative_any_valid(resp) == check_element(resp, valid)

is_affirmative(resp) == check_element(resp, affirmative)

is_negative(resp) == check_element(resp, negative)

-----------------------------------------------------------------------------
(* Events of the log 'out' *)

Ev(op, arg) == [op |-> op, arg |-> arg]

E_prompt       == Ev("prompt", <<>>)
E_InvalidInput == Ev("InvalidInput", <<>>)
E_MaxAttempts  == Ev("MaxAttempts", <<>>)

RECURSIVE Count(_, _)
\* how many events of log s have operation op
Count(s, op) ==
    IF s = <<>> THEN 0
    ELSE (IF s[Len(s)].op = op THEN 1 ELSE 0) + Count(SubSeq(s, 1, Len(s) - 1), op)

-----------------------------------------------------------------------------
(* ConfirmationPrompt.__call__ *)

\* the assert with a strict comparison
within_attempt_limit_strict(a) == max_attempts = None \/ a < Val(max_attempts)

\* the assert that takes an unset max_attempts for a limit of one attempt
within_attempt_limit_unset_is_one(a) == max_attempts # None /\ a <= Val(max_attempts)

\* the assert evaluated as if the counter had not been incremented yet
within_attempt_limit_off_by_one(a) == max_attempts = None \/ a - 1 <= Val(max_attempts)

\* the assert of the loop body, evaluated on the incremented counter
within_attempt_limit(a) == max_attempts = None \/ a <= Val(max_attempts)

\* One iteration of the 'while True' loop that reads resp: the new position,
\* return value and counter, and what the iteration prints.  An iteration that
\* neither returns nor raises goes on to render the prompt again.
GateIteration(resp) ==
    IF is_valid(resp)
    THEN [gate |-> "returned", rval |-> Some(is_affirmative(resp)), attempt |-> attempt,
          printed |-> <<>>]
    ELSE IF within_attempt_limit(attempt + 1)
         THEN [gate |-> "prompting", rval |-> None, attempt |-> attempt + 1,
               printed |-> <<E_InvalidInput, E_prompt>>]
         ELSE [gate |-> "raised", rval |-> None, attempt |-> attempt + 1,
               printed |-> <<E_InvalidInput, E_MaxAttempts>>]

\* the retries the model follows when max_attempts is None
RetryCap == MaxAttemptsBound + 1

\* the user types resp at the rendered prompt
GateReads(resp) ==
    /\ gate = "prompting"
    /\ max_attempts = None => attempt <= RetryCap
    /\ response' = Some(resp)
    /\ LET it == GateIteration(resp) IN
         /\ gate' = it.gate
         /\ rval' = it.rval
         /\ attempt' = it.attempt
    /\ UNCHANGED <<affirmative, negative, case_sensitive, max_attempts>>

\* ConfirmationPrompt(...).__call__() up to the first rendering of the prompt
GateCall(aff, neg, cs, maxatt) ==
    /\ affirmative' = aff
    /\ negative' = neg
    /\ case_sensitive' = cs
    /\ max_attempts' = maxatt
    /\ attempt' = 1
    /\ response' = None
    /\ gate' = "prompting"
    /\ rval' = None

GateIdle ==
    /\ affirmative = {}
    /\ negative = {}
    /\ case_sensitive = FALSE
    /\ max_attempts = None
    /\ attempt = 1
    /\ response = None
    /\ gate = "idle"
    /\ rval = None

-----------------------------------------------------------------------------
(* The prompt on its own, for every lexicon and attempt limit *)

Lexicons == {S \in SUBSET Tokens : Cardinality(S) <= MaxLexicon}

MaxAttemptsValues == {None} \cup {Some(n) : n \in 0..MaxAttemptsBound}

\* no shell session is followed
ShellIdle ==
    /\ shenv = <<>>
    /\ shenv0 = <<>>
    /\ phase = "none"
    /\ preactivate_sourced = FALSE

\* no Prompt is followed
TextIdle ==
    /\ prompt_arg = <<>>
    /\ prompt_text = None

\* downwardlab_home is not followed on its own
HomeIdle ==
    /\ home_path = <<>>
    /\ home_called = FALSE
    /\ home_rval = None

CmdIdle ==
    /\ pc = "shell"
    /\ cmd = "none"
    /\ experiment_name = ""
    /\ expdir = <<>>
    /\ exit_status = None

InitPrompt ==
    /\ affirmative \in Lexicons
    /\ negative \in Lexicons
    /\ case_sensitive \in BOOLEAN
    /\ max_attempts \in MaxAttemptsValues
    /\ attempt = 1
    /\ response = None
    /\ gate = "prompting"
    /\ rval = None
    /\ out = <<E_prompt>>
    /\ CmdIdle
    /\ lab = <<"lab">>
    /\ markers = <<>>
    /\ HomeIdle
    /\ fs = <<>>
    /\ fs0 = <<>>
    /\ venvs = {}
    /\ hookfiles = <<>>
    /\ hookfiles0 = <<>>
    /\ WORKON_HOME = None
    /\ ShellIdle
    /\ TextIdle

PromptReads ==
    \E resp \in Tokens :
        /\ GateReads(resp)
        /\ out' = out \o GateIteration(resp).printed
        /\ UNCHANGED <<cmdvars, envvars, shellvars, textvars, homevars>>

NextPrompt == PromptReads

SpecPrompt == InitPrompt /\ [][NextPrompt]_vars

-----------------------------------------------------------------------------
(* Paths and the directories under the lab *)

Names == {"alpha", "beta"}
Files == {"data.csv"}
Labs  == {<<"lab">>, <<"experiments">>}

\* os.path.basename, os.path.dirname, os.path.join on segment sequences;
\* the empty sequence is the top-level directory
basename(p) == IF p = <<>> THEN "" ELSE p[Len(p)]
dirname(p)  == IF p = <<>> THEN <<>> ELSE SubSeq(p, 1, Len(p) - 1)
join(p, seg) == Append(p, seg)

IsPrefix(p, q) == Len(p) <= Len(q) /\ SubSeq(q, 1, Len(p)) = p

\* os.path.exists / os.path.isdir of a directory path
exists(f, p) == p \in DOMAIN f

\* a creation of p alone, without its missing ancestors
makedirs_leaf_only(f, p) ==
    [q \in DOMAIN f \cup {p} |-> IF q \in DOMAIN f THEN f[q] ELSE {}]

\* os.makedirs(p) when p does not exist: p and its missing ancestors appear, empty
makedirs(f, p) ==
    LET new == {SubSeq(p, 1, k) : k \in 1..Len(p)} \ DOMAIN f
    IN  [q \in DOMAIN f \cup new |-> IF q \in DOMAIN f THEN f[q] ELSE {}]

\* a removal that leaves the tree in place
rmtree_leaves_tree(f, p) == f

\* shutil.rmtree(p): p and everything below it is gone
rmtree(f, p) ==
    LET kept == {q \in DOMAIN f : ~IsPrefix(p, q)}
    IN  [q \in kept |-> f[q]]

\* the places where the commands of a lab look for workspaces
WorkspaceDirs(l) ==
    {join(join(l, "experiments"), n) : n \in Names}
        \cup (IF basename(l) = "experiments" THEN {join(l, n) : n \in Names} ELSE {})

\* the working directories a command is started from
Cwds == {lab, join(lab, "experiments"), <<"tmp">>}

-----------------------------------------------------------------------------
(* scripts/lib/helpers.py *)

\* What a directory holds of one landmark: "none" (no such subdirectory),
\* "empty" (the subdirectory without its landmark file), "dirfile" (the name of
\* the landmark file is a directory), "file" (the landmark file is there).
NoMarkers       == [downward |-> "none", val |-> "none"]
CompleteMarkers == [downward |-> "file", val |-> "file"]

\* the markers of the commands' world: complete in lab, nowhere else
LabMarkers == (lab :> CompleteMarkers)

\* what path holds of the landmarks
markers_at(path) == IF path \in DOMAIN markers THEN markers[path] ELSE NoMarkers

\* os.path.exists of a landmark directory
landmark_dir_exists(kind) == kind # "none"

\* a test of the landmark file that takes a directory of that name for it
landmark_file_ok_any_entry(kind) == kind \in {"dirfile", "file"}

\* os.path.exists(f) and not os.path.isdir(f) of a landmark file
landmark_file_ok(kind) == kind \in {"dirfile", "file"} /\ kind # "dirfile"

\* the landmark test of downwardlab_home
condition(path) ==
    /\ landmark_dir_exists(markers_at(path).downward) /\ landmark_dir_exists(markers_at(path).val)
    /\ landmark_file_ok(markers_at(path).downward) /\ landmark_file_ok(markers_at(path).val)

RECURSIVE check_parent(_)
\* None when the top-level directory or a parent that does not exist is met
check_parent(path) ==
    LET parent == dirname(path) IN
    IF parent = path \/ ~exists(fs, parent) THEN None
    ELSE IF condition(parent) THEN Some(parent)
    ELSE check_parent(parent)

\* None stands for the FileNotFoundError of get_nearest_ancestor
downwardlab_home(path) ==
    IF condition(path) THEN Some(path) ELSE check_parent(path)

-----------------------------------------------------------------------------
(* Hook files of scripts/new_experiment.py *)

hooks == <<"preactivate", "postactivate", "predeactivate", "postdeactivate">>
Hooks == {hooks[i] : i \in 1..Len(hooks)}
\* the hooks that start an enter and an exit are both made executable
EXECUTABLE_both == {"preactivate", "predeactivate"}

\* no hook is made executable
EXECUTABLE_none == {}

EXECUTABLE == {"preactivate"}

RECURSIVE PathStr(_)
\* a path as the string that an f-string renders
PathStr(p) == IF p = <<>> THEN "" ELSE PathStr(dirname(p)) \o "/" \o basename(p)

\* A text is the sequence of its lines (the text split at '\n'; the empty text
\* is one empty line).  A line is the sequence of its blank-separated words.
\* A word is NAME=value (name is NAME) or a plain word (name is ""); its value
\* is a sequence of parts: literal text, or a reference $NAME / ${NAME}.
\* Double quotes around a whole value are not kept.
Lit(s) == [kind |-> "lit", text |-> s]
Ref(v) == [kind |-> "ref", text |-> v]
Word(s) == [name |-> "", parts |-> <<Lit(s)>>]
Assign(n, parts) == [name |-> n, parts |-> parts]

EmptyText == << <<>> >>
\* the string '\n'
NL == << <<>>, <<>> >>
\* a string without '\n' that holds the words of line
Str(line) == <<line>>
\* '\n' followed by the words of line
NLStr(line) == << <<>>, line >>

\* the parts that spell word w when it continues another word
Spelled(w) == IF w.name = "" THEN w.parts ELSE <<Lit(w.name \o "=")>> \o w.parts

\* two lines written one after the other with nothing in between: the last
\* word of the first and the first word of the second become one word
LineCat(l1, l2) ==
    IF l1 = <<>> THEN l2
    ELSE IF l2 = <<>> THEN l1
    ELSE SubSeq(l1, 1, Len(l1) - 1)
            \o <<[name |-> l1[Len(l1)].name, parts |-> l1[Len(l1)].parts \o Spelled(l2[1])]>>
            \o Tail(l2)

\* string concatenation t1 + t2 (also: adjacent string literals, f.write after f.write)
TextCat(t1, t2) ==
    SubSeq(t1, 1, Len(t1) - 1) \o <<LineCat(t1[Len(t1)], t2[1])>> \o Tail(t2)

RECURSIVE TextCatAll(_)
\* the implicit concatenation of a sequence of adjacent string literals
TextCatAll(ts) ==
    IF ts = <<>> THEN EmptyText
    ELSE TextCat(TextCatAll(SubSeq(ts, 1, Len(ts) - 1)), ts[Len(ts)])

RECURSIVE newline_join(_)
\* '\n'.join(commands)
newline_join(commands) ==
    IF commands = <<>> THEN EmptyText
    ELSE IF Len(commands) = 1 THEN commands[1]
    ELSE newline_join(SubSeq(commands, 1, Len(commands) - 1)) \o commands[Len(commands)]

export(name, parts) == <<Word("export"), Assign(name, parts)>>
unset(name) == <<Word("unset"), Word(name)>>

preactivate_text ==
    newline_join(<<
        Str(export("_BASEENV_PYTHONPATH", <<Ref("PYTHONPATH")>>)),
        Str(unset("PYTHONPATH")) >>)

\* postactivate_text that overrides PROJECT_HOME before taking its snapshot
postactivate_text_override_first(dlab_rootdir) ==
    newline_join(<<
        Str(export("PROJECT_HOME", <<Lit(PathStr(dlab_rootdir))>>)),
        Str(export("_BASEENV_PROJECT_HOME", <<Ref("PROJECT_HOME")>>)),
        NL,
        Str(export("_BASEENV_PATH", <<Ref("PATH")>>)),
        Str(export("PATH", <<Ref("PROJECT_HOME"), Lit("/VAL:"), Ref("PATH")>>)),
        NL,
        TextCatAll(<<
            Str(export("DOWNWARD_BENCHMARKS", <<Ref("PROJECT_HOME"), Lit("/benchmarks")>>)),
            Str(export("DOWNWARD_REPO", <<Ref("PROJECT_HOME"), Lit("/fast-downward")>>)) >>) >>)

\* the last element of 'commands' is two adjacent string literals with no comma
\* between them: one string
postactivate_text(dlab_rootdir) ==
    newline_join(<<
        Str(export("_BASEENV_PROJECT_HOME", <<Ref("PROJECT_HOME")>>)),
        Str(export("PROJECT_HOME", <<Lit(PathStr(dlab_rootdir))>>)),
        NL,
        Str(export("_BASEENV_PATH", <<Ref("PATH")>>)),
        Str(export("PATH", <<Ref("PROJECT_HOME"), Lit("/VAL:"), Ref("PATH")>>)),
        NL,
        TextCatAll(<<
            Str(export("DOWNWARD_BENCHMARKS", <<Ref("PROJECT_HOME"), Lit("/benchmarks")>>)),
            Str(export("DOWNWARD_REPO", <<Ref("PROJECT_HOME"), Lit("/fast-downward")>>)) >>) >>)

\* predeactivate_text without the statement that restores PATH
predeactivate_text_without_PATH_restore ==
    TextCatAll(<<
        NLStr(export("PROJECT_HOME", <<Ref("_BASEENV_PROJECT_HOME")>>)),
        NLStr(unset("_BASEENV_PROJECT_HOME")),
        NL,
        NLStr(unset("_BASEENV_PATH")),
        NL,
        NLStr(unset("DOWNWARD_BENCHMARKS")),
        NLStr(unset("DOWNWARD_REPO")),
        NL >>)

predeactivate_text ==
    TextCatAll(<<
        NLStr(export("PROJECT_HOME", <<Ref("_BASEENV_PROJECT_HOME")>>)),
        NLStr(unset("_BASEENV_PROJECT_HOME")),
        NL,
        NLStr(export("PATH", <<Ref("_BASEENV_PATH")>>)),
        NLStr(unset("_BASEENV_PATH")),
        NL,
        NLStr(unset("DOWNWARD_BENCHMARKS")),
        NLStr(unset("DOWNWARD_REPO")),
        NL >>)

postdeactivate_text ==
    newline_join(<<
        Str(export("PYTHONPATH", <<Ref("_BASEENV_PYTHONPATH")>>)),
        Str(unset("_BASEENV_PYTHONPATH")) >>)

generate_hook_text(hook, dlab_rootdir) ==
    CASE hook = "preactivate"    -> preactivate_text
      [] hook = "postactivate"   -> postactivate_text(dlab_rootdir)
      [] hook = "predeactivate"  -> predeactivate_text
      [] hook = "postdeactivate" -> postdeactivate_text

\* f'#!{exec}\n\n' with exec='/bin/bash'
shebang == << <<[name |-> "", parts |-> <<Lit("#!"), Lit("/bin/bash")>>]>>, <<>>, <<>> >>

\* write_hook that opens the file for appending whatever 'overwrite' says
write_hook_appends(old, hook, dlab_rootdir, overwrite, executable) ==
    LET before == IF old = None THEN EmptyText ELSE Val(old).lines
        head   == IF executable THEN TextCat(before, shebang) ELSE before
    IN  Some([lines |-> TextCat(head, generate_hook_text(hook, dlab_rootdir)),
              executable |-> executable \/ (old # None /\ Val(old).executable)])

\* the file that write_hook leaves: old is None or Some(file that was there)
write_hook(old, hook, dlab_rootdir, overwrite, executable) ==
    LET before == IF overwrite \/ old = None THEN EmptyText ELSE Val(old).lines
        head   == IF executable THEN TextCat(before, shebang) ELSE before
    IN  Some([lines |-> TextCat(head, generate_hook_text(hook, dlab_rootdir)),
              executable |-> executable \/ (old # None /\ Val(old).executable)])

\* generate_virtualenvwrapper_hooks stopped by a write failure after the first
\* n hooks (n = Len(hooks): all four written)
hooks_written(files, name, dlab_rootdir, n) ==
    [e \in DOMAIN files |->
        IF e # name THEN files[e]
        ELSE [h \in Hooks |->
                IF \E i \in 1..n : hooks[i] = h
                THEN write_hook(files[e][h], h, dlab_rootdir, TRUE, h \in EXECUTABLE)
                ELSE files[e][h]]]

NoHooks == [h \in Hooks |-> None]

-----------------------------------------------------------------------------
(* The commands *)

E_raise(exc)  == Ev("raise", <<exc>>)
E_exit        == Ev("sys.exit", <<>>)
E_call(op, a) == Ev(op, a)
\* mkexpdir returns r: None, or Some(the directory)
E_mkexpdir_returns(r) == Ev("mkexpdir_returns", IF r = None THEN <<>> ELSE Val(r))

\* the max_attempts keyword of confirmation_prompt in the two commands
OVERWRITE_MAX_ATTEMPTS == 3
DELETE_MAX_ATTEMPTS == 3

\* the directory that mkexpdir works on
mkexpdir_path(rootdir, name) ==
    IF basename(rootdir) # "experiments"
    THEN join(join(rootdir, "experiments"), name)
    ELSE join(rootdir, name)

\* the directory that delete_experiment works on
delete_path(DL_HOME, name) == join(join(DL_HOME, "experiments"), name)

\* the truth test that takes any returned value for a confirmation
overwrite_confirmed_any_answer(rv) == rv # None

\* 'if confirm_overwrite(...)' of mkexpdir on the value the prompt returned
overwrite_confirmed(rv) == rv = Some(TRUE)

\* the truth test that takes any returned value for a confirmation
delete_confirmed_any_answer(rv) == rv # None

\* 'if confirmation_prompt(...)' of delete_experiment on the value the prompt returned
delete_confirmed(rv) == rv = Some(TRUE)

\* an abort condition that no return value meets
abort_condition_never(r) == FALSE

\* rval_condition of the decorator on create_experiment_subdir: rval is None
abort_condition(r) == r = None

\* abort() ending the process with status 0
abort_exits_zero(r) == 0

\* abort(rval) with error=False: sys.exit(1); the exit status of the process
abort(r) == 1

\* the test of delete_experiment that never finds the directory missing
workspace_missing_never(f, exp_dir) == FALSE

\* 'if not os.path.isdir(exp_dir)' of delete_experiment
workspace_missing(f, exp_dir) == ~exists(f, exp_dir)

\* a removal that gives up on a directory that is not empty
rmexpdir_only_if_empty(f, experiment_dir) ==
    IF f[experiment_dir] = {} THEN rmtree(f, experiment_dir) ELSE f

\* _rmexpdir: shutil.rmtree(experiment_dir, ignore_errors=True)
rmexpdir(f, experiment_dir) ==
    IF exists(f, experiment_dir) THEN rmtree(f, experiment_dir) ELSE f

\* subprocess.run with check=False: the exit status is not looked at
check_raises_never(ok) == FALSE

\* subprocess.run(..., check=True) of _exec_with_virtualenvwrapper_api:
\* CalledProcessError when the command ended with a non-zero status (~ok)
check_raises(ok) == ~ok

\* the process ends: status 1 for an uncaught exception or sys.exit(1)
Ends(status) ==
    /\ pc' = "shell"
    /\ exit_status' = Some(status)

\* a command is started from the shell with one argument
Starts(c, name, dir) ==
    /\ cmd' = c
    /\ experiment_name' = name
    /\ expdir' = dir
    /\ fs0' = fs
    /\ hookfiles0' = hookfiles

\* no ConfirmationPrompt exists
GateReset ==
    /\ affirmative' = {}
    /\ negative' = {}
    /\ case_sensitive' = FALSE
    /\ max_attempts' = None
    /\ attempt' = 1
    /\ response' = None
    /\ gate' = "idle"
    /\ rval' = None

\* main(name) after mkexpdir has returned r to the wrapper of
\* create_experiment_subdir; log is what was printed and called so far
MainAfterMkexpdir(name, r, log) ==
    IF abort_condition(r)
    THEN /\ out' = log \o <<E_mkexpdir_returns(r), E_exit>>
         /\ Ends(abort(r))
    ELSE /\ out' = log \o <<E_mkexpdir_returns(r), E_call("mkvirtualenv", <<name>>)>>
         /\ pc' = "mkvirtualenv"
         /\ exit_status' = None

\* new_experiment.main up to the first prompt or the external command
CreateStart(name, cwd) ==
    /\ pc = "shell"
    /\ exists(fs, cwd)
    /\ LET DL_HOME == downwardlab_home(cwd) IN
       IF DL_HOME = None
       THEN /\ Starts("create", name, <<>>)
            /\ out' = <<E_raise("FileNotFoundError")>>
            /\ Ends(1)
            /\ GateReset
            /\ UNCHANGED fs
       ELSE LET dir == mkexpdir_path(Val(DL_HOME), name) IN
            /\ Starts("create", name, dir)
            /\ IF ~exists(fs, dir)
               THEN /\ fs' = makedirs(fs, dir)
                    /\ MainAfterMkexpdir(name, Some(dir), <<E_call("makedirs", dir)>>)
                    /\ GateReset
               ELSE /\ GateCall({s_yes}, {s_no}, FALSE, Some(OVERWRITE_MAX_ATTEMPTS))
                    /\ out' = <<E_call("OVERWRITE_WARNING", dir), E_prompt>>
                    /\ pc' = "overwrite_prompt"
                    /\ exit_status' = None
                    /\ UNCHANGED fs
    /\ UNCHANGED <<lab, markers, venvs, hookfiles, WORKON_HOME, shellvars, textvars, homevars>>

\* the user answers the overwrite prompt; mkexpdir and main go on from there
OverwriteReads(resp) ==
    /\ pc = "overwrite_prompt"
    /\ GateReads(resp)
    /\ LET it == GateIteration(resp) IN
         CASE it.gate = "prompting" ->
                /\ out' = out \o it.printed
                /\ UNCHANGED <<pc, exit_status, fs>>
           [] it.gate = "raised" ->
                /\ out' = out \o it.printed \o <<E_raise("AssertionError")>>
                /\ Ends(1)
                /\ UNCHANGED fs
           [] it.gate = "returned" /\ overwrite_confirmed(it.rval) ->
                /\ fs' = makedirs(rmtree(fs, expdir), expdir)
                /\ MainAfterMkexpdir(experiment_name, Some(expdir),
                        out \o <<E_call("rmtree", expdir), E_call("makedirs", expdir)>>)
           [] it.gate = "returned" /\ ~overwrite_confirmed(it.rval) ->
                /\ MainAfterMkexpdir(experiment_name, None, out)
                /\ UNCHANGED fs
    /\ UNCHANGED <<cmd, experiment_name, expdir, lab, markers, fs0, venvs, hookfiles, hookfiles0, WORKON_HOME, shellvars, textvars, homevars>>

\* mkvirtualenv ends (ok: exit status 0); on success the hooks are generated,
\* of which the first nwritten are written before an OSError, if any
MkvirtualenvReturns(ok, nwritten) ==
    /\ pc = "mkvirtualenv"
    /\ IF check_raises(ok)
       THEN /\ out' = out \o <<E_raise("CalledProcessError")>>
            /\ Ends(1)
            /\ UNCHANGED <<venvs, hookfiles>>
       ELSE /\ venvs' = (IF ok THEN venvs \cup {experiment_name} ELSE venvs)
            /\ IF WORKON_HOME = None
               THEN /\ out' = out \o <<E_raise("TypeError")>>
                    /\ Ends(1)
                    /\ UNCHANGED hookfiles
               ELSE /\ hookfiles' = hooks_written(hookfiles, experiment_name, lab, nwritten)
                    /\ out' = out \o [i \in 1..nwritten |->
                                        E_call("write_hook", <<experiment_name, hooks[i]>>)]
                               \o (IF nwritten < Len(hooks) THEN <<E_raise("OSError")>> ELSE <<>>)
                    /\ Ends(IF nwritten < Len(hooks) THEN 1 ELSE 0)
    /\ UNCHANGED <<gatevars, cmd, experiment_name, expdir, lab, markers, fs, fs0, hookfiles0, WORKON_HOME, shellvars, textvars, homevars>>

\* delete_experiment up to the prompt
DeleteStart(name, cwd) ==
    /\ pc = "shell"
    /\ exists(fs, cwd)
    /\ LET DL_HOME == downwardlab_home(cwd) IN
       IF DL_HOME = None
       THEN /\ Starts("delete", name, <<>>)
            /\ out' = <<E_raise("FileNotFoundError")>>
            /\ Ends(1)
            /\ GateReset
       ELSE LET exp_dir == delete_path(Val(DL_HOME), name) IN
            /\ Starts("delete", name, exp_dir)
            /\ IF workspace_missing(fs, exp_dir)
               THEN /\ out' = <<E_raise("FileNotFoundError")>>
                    /\ Ends(1)
                    /\ GateReset
               ELSE /\ GateCall({s_yes}, {s_no}, FALSE, Some(DELETE_MAX_ATTEMPTS))
                    /\ out' = <<E_prompt>>
                    /\ pc' = "delete_prompt"
                    /\ exit_status' = None
    /\ UNCHANGED <<lab, markers, fs, venvs, hookfiles, WORKON_HOME, shellvars, textvars, homevars>>

\* the user answers the delete prompt
DeleteReads(resp) ==
    /\ pc = "delete_prompt"
    /\ GateReads(resp)
    /\ LET it == GateIteration(resp) IN
         CASE it.gate = "prompting" ->
                /\ out' = out \o it.printed
                /\ UNCHANGED <<pc, exit_status, fs>>
           [] it.gate = "raised" ->
                /\ out' = out \o it.printed \o <<E_raise("AssertionError")>>
                /\ Ends(1)
                /\ UNCHANGED fs
           [] it.gate = "returned" /\ delete_confirmed(it.rval) ->
                /\ fs' = rmexpdir(fs, expdir)
                /\ out' = out \o <<E_call("rmtree", expdir),
                                   E_call("rmvirtualenv", <<experiment_name>>)>>
                /\ pc' = "rmvirtualenv"
                /\ UNCHANGED exit_status
           [] it.gate = "returned" /\ ~delete_confirmed(it.rval) ->
                /\ out' = out \o <<E_call("print", <<"Aborting...">>)>>
                /\ Ends(0)
                /\ UNCHANGED fs
    /\ UNCHANGED <<cmd, experiment_name, expdir, lab, markers, fs0, venvs, hookfiles, hookfiles0, WORKON_HOME, shellvars, textvars, homevars>>

\* rmvirtualenv ends (ok: exit status 0)
RmvirtualenvReturns(ok) ==
    /\ pc = "rmvirtualenv"
    /\ IF check_raises(ok)
       THEN /\ out' = out \o <<E_raise("CalledProcessError")>>
            /\ Ends(1)
            /\ UNCHANGED <<venvs, hookfiles>>
       ELSE /\ venvs' = (IF ok THEN venvs \ {experiment_name} ELSE venvs)
            /\ hookfiles' = (IF ok THEN [hookfiles EXCEPT ![experiment_name] = NoHooks]
                             ELSE hookfiles)
            /\ out' = out
            /\ Ends(0)
    /\ UNCHANGED <<gatevars, cmd, experiment_name, expdir, lab, markers, fs, fs0, hookfiles0, WORKON_HOME, shellvars, textvars, homevars>>

\* the directories that exist before the first command: the top-level
\* directory, /tmp, the lab, any of its workspace directories with any files in
\* them, and their parents
InitFs ==
    \E D \in SUBSET WorkspaceDirs(lab) :
    \E withExperiments \in BOOLEAN :
    \E content \in [D -> SUBSET Files] :
        LET dirs == {<<>>, <<"tmp">>, lab} \cup D \cup {dirname(d) : d \in D}
                        \cup (IF withExperiments THEN {join(lab, "experiments")} ELSE {})
        IN  fs = [q \in dirs |-> IF q \in D THEN content[q] ELSE {}]

Init ==
    /\ GateIdle
    /\ CmdIdle
    /\ out = <<>>
    /\ lab \in Labs
    /\ markers = LabMarkers
    /\ HomeIdle
    /\ InitFs
    /\ fs0 = fs
    /\ venvs = {}
    /\ hookfiles = [n \in Names |-> NoHooks]
    /\ hookfiles0 = hookfiles
    /\ WORKON_HOME \in {None, Some(<<"venvs">>)}
    /\ ShellIdle
    /\ TextIdle

Next ==
    \/ \E name \in Names : \E cwd \in Cwds : CreateStart(name, cwd)
    \/ \E resp \in Tokens : OverwriteReads(resp)
    \/ \E ok \in BOOLEAN : \E nwritten \in 0..Len(hooks) : MkvirtualenvReturns(ok, nwritten)
    \/ \E name \in Names : \E cwd \in Cwds : DeleteStart(name, cwd)
    \/ \E resp \in Tokens : DeleteReads(resp)
    \/ \E ok \in BOOLEAN : RmvirtualenvReturns(ok)

Spec == Init /\ [][Next]_vars

-----------------------------------------------------------------------------
(* The generated hooks run by a shell *)

\* the variables that the hook texts name
LiveVars    == {"PYTHONPATH", "PROJECT_HOME", "PATH"}
ShadowVars  == {"_BASEENV_PYTHONPATH", "_BASEENV_PROJECT_HOME", "_BASEENV_PATH"}
DerivedVars == {"DOWNWARD_BENCHMARKS", "DOWNWARD_REPO"}
ShellVars   == LiveVars \cup ShadowVars \cup DerivedVars

\* the value of $v in env: the empty string when v is not set
Deref(env, v) == IF v \in DOMAIN env /\ env[v] # None THEN Val(env[v]) ELSE ""

RECURSIVE Expand(_, _)
\* the string that the parts of a word expand to in env
Expand(parts, env) ==
    IF parts = <<>> THEN ""
    ELSE LET q == parts[Len(parts)] IN
         Expand(SubSeq(parts, 1, Len(parts) - 1), env)
            \o (IF q.kind = "lit" THEN q.text ELSE Deref(env, q.text))

\* the assignment words / the plain words among the arguments of a statement
Assigned(line, v) == {i \in 2..Len(line) : line[i].name = v}
Named(line, v) == {i \in 2..Len(line) : line[i].name = "" /\ Expand(line[i].parts, <<>>) = v}

\* the environment after the shell has executed one line: the words of the
\* line are expanded in env before the statement takes effect
Exec(env, line) ==
    IF line = <<>> \/ line[1].name # "" THEN env
    ELSE LET c == Expand(line[1].parts, env) IN
         CASE c = "export" ->
                [v \in DOMAIN env |->
                    IF Assigned(line, v) = {} THEN env[v]
                    ELSE LET i == CHOOSE k \in Assigned(line, v) :
                                    \A j \in Assigned(line, v) : j <= k
                         IN  Some(Expand(line[i].parts, env))]
           [] c = "unset" ->
                [v \in DOMAIN env |-> IF Named(line, v) = {} THEN env[v] ELSE None]
           [] OTHER -> env

RECURSIVE Source(_, _)
\* the environment after the shell has executed the lines of a text in order
Source(env, text) ==
    IF text = <<>> THEN env
    ELSE Exec(Source(env, SubSeq(text, 1, Len(text) - 1)), text[Len(text)])

\* what a variable may hold before the environment is entered: unset (None),
\* the empty string, or a value
BaseValues(v) ==
    CASE v = "PYTHONPATH"   -> {None, Some(""), Some("/opt/py")}
      [] v = "PROJECT_HOME" -> {None, Some("/home/projects")}
      [] v = "PATH"         -> {None, Some("/usr/bin")}
      [] v \in ShadowVars   -> {None, Some("stale")}
      [] v \in DerivedVars  -> {None, Some("/elsewhere")}

BaseEnvs == {env \in [ShellVars -> UNION {BaseValues(v) : v \in ShellVars}] :
                \A v \in ShellVars : env[v] \in BaseValues(v)}

\* a shell in some environment, after new_experiment has created the
\* virtualenv e and written its hooks with the lab as dlab_rootdir
InitShell ==
    /\ GateIdle
    /\ CmdIdle
    /\ TextIdle
    /\ out = <<>>
    /\ lab \in Labs
    /\ markers = LabMarkers
    /\ HomeIdle
    /\ fs = <<>>
    /\ fs0 = <<>>
    /\ WORKON_HOME = Some(<<"venvs">>)
    /\ \E e \in Names :
        /\ venvs = {e}
        /\ hookfiles = hooks_written([n \in Names |-> NoHooks], e, lab, Len(hooks))
    /\ hookfiles0 = hookfiles
    /\ shenv \in BaseEnvs
    /\ shenv0 = shenv
    /\ phase = "outside"
    /\ preactivate_sourced \in BOOLEAN

\* virtualenvwrapper runs one hook of environment e: a sourced hook changes
\* the variables of the shell, a hook run as a program changes only its own
RunHook(e, hook, from, to, sourced) ==
    /\ phase = from
    /\ hookfiles[e][hook] # None
    /\ sourced \/ Val(hookfiles[e][hook]).executable
    /\ shenv' = IF sourced THEN Source(shenv, Val(hookfiles[e][hook]).lines) ELSE shenv
    /\ phase' = to
    /\ UNCHANGED <<gatevars, cmdvars, out, envvars, shenv0, preactivate_sourced, textvars, homevars>>

Preactivate(e)    == RunHook(e, "preactivate", "outside", "entering", preactivate_sourced)
Postactivate(e)   == RunHook(e, "postactivate", "entering", "active", TRUE)
Predeactivate(e)  == RunHook(e, "predeactivate", "active", "leaving", TRUE)
Postdeactivate(e) == RunHook(e, "postdeactivate", "leaving", "left", TRUE)

NextShell ==
    \/ \E e \in venvs : Preactivate(e)
    \/ \E e \in venvs : Postactivate(e)
    \/ \E e \in venvs : Predeactivate(e)
    \/ \E e \in venvs : Postdeactivate(e)

SpecShell == InitShell /\ [][NextShell]_vars

-----------------------------------------------------------------------------
(* Prompt.__init__ on its own, for every display string *)

\* the characters of display strings: blank, '?' and 'a'
SPACE == <<32>>
TextChars == {32, 63, 97}

RECURSIVE Texts(_)
\* the strings of at most n characters
Texts(n) ==
    IF n = 0 THEN {<<>>}
    ELSE Texts(n - 1) \cup {Append(t, c) : t \in {u \in Texts(n - 1) : Len(u) = n - 1}, c \in TextChars}

\* str.endswith
endswith(text, suffix) ==
    /\ Len(suffix) <= Len(text)
    /\ SubSeq(text, Len(text) - Len(suffix) + 1, Len(text)) = suffix

\* a constructor that appends a blank to every string
Prompt_init_always_appends(text) == text \o SPACE

\* Prompt.__init__: self.text for the argument text
Prompt_init(text) == IF endswith(text, SPACE) THEN text ELSE text \o SPACE

InitText ==
    /\ GateIdle
    /\ CmdIdle
    /\ ShellIdle
    /\ out = <<>>
    /\ lab = <<"lab">>
    /\ markers = <<>>
    /\ HomeIdle
    /\ fs = <<>>
    /\ fs0 = <<>>
    /\ venvs = {}
    /\ hookfiles = <<>>
    /\ hookfiles0 = <<>>
    /\ WORKON_HOME = None
    /\ prompt_arg \in Texts(MaxTextLen)
    /\ prompt_text = None

\* Prompt(text=prompt_arg) is constructed
PromptInit ==
    /\ prompt_text = None
    /\ prompt_text' = Some(Prompt_init(prompt_arg))
    /\ UNCHANGED <<gatevars, cmdvars, out, envvars, shellvars, prompt_arg, homevars>>

NextText == PromptInit

SpecText == InitText /\ [][NextText]_vars

-----------------------------------------------------------------------------
(* downwardlab_home on its own, for every layout of the landmarks *)

\* the directory of depth k on one branch of the file system (0: top level)
Segments == <<"srv", "labs", "dl", "runs", "r1", "r2", "r3">>
Chain(k) == SubSeq(Segments, 1, k)

\* what a directory may hold of the two landmarks
Layouts ==
    { NoMarkers,
      [downward |-> "file",  val |-> "none"],
      [downward |-> "file",  val |-> "empty"],
      [downward |-> "file",  val |-> "dirfile"],
      [downward |-> "empty", val |-> "file"],
      CompleteMarkers }

\* the branch exists down to some depth, every existing directory holds any
\* layout of the landmarks, and the starting path is any path of the branch
InitHome ==
    /\ GateIdle
    /\ CmdIdle
    /\ ShellIdle
    /\ TextIdle
    /\ out = <<>>
    /\ lab = <<"lab">>
    /\ \E k \in 0..MaxDepth : fs = [d \in {Chain(i) : i \in 0..k} |-> {}]
    /\ markers \in [DOMAIN fs -> Layouts]
    /\ fs0 = fs
    /\ venvs = {}
    /\ hookfiles = <<>>
    /\ hookfiles0 = <<>>
    /\ WORKON_HOME = None
    /\ home_path \in {Chain(i) : i \in 0..MaxDepth}
    /\ home_called = FALSE
    /\ home_rval = None

\* downwardlab_home(home_path) is called and returns or raises
HomeCall ==
    /\ ~home_called
    /\ home_called' = TRUE
    /\ home_rval' = downwardlab_home(home_path)
    /\ UNCHANGED <<gatevars, cmdvars, out, envvars, shellvars, textvars, home_path>>

NextHome == HomeCall

SpecHome == InitHome /\ [][NextHome]_vars

-----------------------------------------------------------------------------
(* Properties of the prompt *)

\* two characters that are equal, or the upper and lower case of one letter
SameLetter(c, d) ==
    \/ c = d
    \/ c \in 65..90 /\ d = c + 32
    \/ d \in 65..90 /\ c = d + 32

SameIgnoringCase(a, b) ==
    /\ Len(a) = Len(b)
    /\ \A i \in 1..Len(a) : SameLetter(a[i], b[i])

\* token t is matched by the line r under the case mode of the prompt
Matches(r, t) == IF case_sensitive THEN r = t ELSE SameIgnoringCase(r, t)

MatchesSome(r, S) == \E t \in S : Matches(r, t)

\* no affirmative token and negative token are the same token under the case
\* mode of the prompt (the tokens of a lexicon are case-insensitive unless
\* case_sensitive is set)
LexiconDisjoint == \A a \in affirmative : \A n \in negative : ~Matches(a, n)

\* responses read so far by the running __call__
ResponsesRead == Count(out, "prompt") - (IF gate = "prompting" THEN 1 ELSE 0)

\* C1: with a disjoint lexicon, a response that matches an affirmative token
\* makes __call__ return True and one that matches a negative token makes it
\* return False; matching ignores case unless case_sensitive is True, and is
\* exact when it is True.
C1_MatchDecidesOutcome ==
    (response # None /\ LexiconDisjoint) =>
        /\ MatchesSome(Val(response), affirmative) => (gate = "returned" /\ rval = Some(TRUE))
        /\ MatchesSome(Val(response), negative) => (gate = "returned" /\ rval = Some(FALSE))

\* a response in another case than the only affirmative token was read, with
\* a disjoint lexicon, and True came back
C1_Witness ==
    /\ LexiconDisjoint
    /\ case_sensitive = FALSE
    /\ affirmative = {s_yes}
    /\ negative = {s_NO}
    /\ response = Some(s_Yes)
    /\ gate = "returned"
    /\ rval = Some(TRUE)

\* C2: with max_attempts = N, the Nth invalid response in a row makes __call__
\* print the max-attempts message and raise; __call__ returns only True or
\* False, and only for a response that is in the lexicon (no default outcome).
C2_ExhaustionRaises ==
    /\ rval \in {None, Some(TRUE), Some(FALSE)}
    /\ gate = "returned" =>
            /\ rval \in {Some(TRUE), Some(FALSE)}
            /\ MatchesSome(Val(response), affirmative \cup negative)
    /\ gate = "raised" => rval = None
    /\ ( /\ max_attempts # None
         /\ Val(max_attempts) >= 1
         /\ ResponsesRead = Val(max_attempts)
         /\ ~MatchesSome(Val(response), affirmative \cup negative) ) =>
            /\ gate = "raised"
            /\ out[Len(out)] = E_MaxAttempts
            /\ Count(out, "MaxAttempts") = 1

\* three invalid responses were read under max_attempts = 3 and the call raised
C2_Witness ==
    /\ max_attempts = Some(3)
    /\ gate = "raised"
    /\ ResponsesRead = 3
    /\ Count(out, "InvalidInput") = 3
    /\ out[Len(out)] = E_MaxAttempts

\* the last response read is in the lexicon / is not
LastValid   == response # None /\ MatchesSome(Val(response), affirmative \cup negative)
LastInvalid == response # None /\ ~MatchesSome(Val(response), affirmative \cup negative)

\* the invalid responses read so far: every response but a final valid one
InvalidRead == ResponsesRead - (IF gate = "returned" THEN 1 ELSE 0)

\* C18: with max_attempts = N >= 1 the prompt is rendered at most N times; a
\* valid response on any attempt up to the Nth is accepted; the call fails
\* only after an invalid response has been read (the Nth); each invalid
\* response prints exactly one invalid-input warning; the max-attempts message
\* is printed exactly once, right after the warning for the Nth invalid
\* response and as the last thing before the failure.
C18_BoundedAttempts ==
    (max_attempts # None /\ Val(max_attempts) >= 1) =>
        /\ Count(out, "prompt") <= Val(max_attempts)
        /\ ResponsesRead <= Val(max_attempts)
        /\ LastValid => (gate = "returned" /\ Count(out, "MaxAttempts") = 0)
        /\ Count(out, "InvalidInput") = InvalidRead
        /\ gate = "raised" =>
                /\ LastInvalid
                /\ InvalidRead = Val(max_attempts)
                /\ Count(out, "MaxAttempts") = 1
                /\ Len(out) >= 2
                /\ out[Len(out)] = E_MaxAttempts
                /\ out[Len(out) - 1] = E_InvalidInput
        /\ gate # "raised" => Count(out, "MaxAttempts") = 0
        /\ (gate = "prompting" /\ response # None) =>
                /\ LastInvalid
                /\ out[Len(out)] = E_prompt
                /\ out[Len(out) - 1] = E_InvalidInput

\* under max_attempts = 3 two invalid responses were followed by a valid one,
\* which was accepted on the third and last attempt
C18_Witness ==
    /\ max_attempts = Some(3)
    /\ gate = "returned"
    /\ ResponsesRead = 3
    /\ Count(out, "InvalidInput") = 2
    /\ Count(out, "prompt") = 3
    /\ LastValid

\* the number of prompts after which a call with max_attempts = Some(n) has ended
PromptBound(n) == IF n >= 1 THEN n ELSE 1

\* C19: with max_attempts unset the call never fails for exhaustion and
\* renders the prompt again after every invalid response, until a valid one is
\* read; with max_attempts set the call has ended, with an outcome or with the
\* failure, once a bounded number of prompts has been answered, whatever the
\* answers were.
C19_RetryAndTermination ==
    /\ max_attempts = None =>
            /\ gate # "raised"
            /\ Count(out, "MaxAttempts") = 0
            /\ LastInvalid =>
                    /\ gate = "prompting"
                    /\ out[Len(out)] = E_prompt
                    /\ Count(out, "prompt") = ResponsesRead + 1
            /\ gate = "returned" => LastValid
    /\ (max_attempts # None /\ gate \in {"prompting", "returned", "raised"}) =>
            /\ Count(out, "prompt") <= PromptBound(Val(max_attempts))
            /\ ResponsesRead >= PromptBound(Val(max_attempts)) => gate \in {"returned", "raised"}
            /\ gate = "prompting" => ResponsesRead < PromptBound(Val(max_attempts))

\* with max_attempts unset, more invalid responses than any limit of the
\* model were read and the prompt is rendered once more
C19_Witness ==
    /\ max_attempts = None
    /\ gate = "prompting"
    /\ LastInvalid
    /\ ResponsesRead > MaxAttemptsBound
    /\ Count(out, "InvalidInput") = ResponsesRead

\* the last response read matches a token of both sets of the lexicon
LastMatchesBoth ==
    /\ response # None
    /\ MatchesSome(Val(response), affirmative)
    /\ MatchesSome(Val(response), negative)

\* C25: a lexicon whose affirmative and negative sets are not disjoint, be it
\* by a common token or by tokens that coincide after case folding in
\* case-insensitive mode, is accepted without error, and a response that
\* matches both sets is valid and makes __call__ return True: the affirmative
\* set has priority.
C25_AffirmativePriority ==
    /\ ~LexiconDisjoint =>
            /\ gate \in {"prompting", "returned", "raised"}
            /\ gate = "raised" => LastInvalid
    /\ LastMatchesBoth =>
            /\ ~LexiconDisjoint
            /\ gate = "returned"
            /\ rval = Some(TRUE)
            /\ Count(out, "MaxAttempts") = 0

\* in case-insensitive mode a response matched an affirmative and a negative
\* token that differ as written, and __call__ returned True
C25_Witness ==
    /\ case_sensitive = FALSE
    /\ affirmative \cap negative = {}
    /\ LastMatchesBoth
    /\ gate = "returned"
    /\ rval = Some(TRUE)

-----------------------------------------------------------------------------
(* Properties of the commands *)

\* the positions of the log at which operation op was logged
Positions(op) == {i \in 1..Len(out) : out[i].op = op}

Logged(op) == Positions(op) # {}

\* the directories at or below p
Tree(f, p) == {q \in DOMAIN f : IsPrefix(p, q)}

\* f and g agree outside the tree of p
SameOutside(f, g, p) ==
    /\ DOMAIN f \ Tree(f, p) = DOMAIN g \ Tree(g, p)
    /\ \A q \in DOMAIN f \ Tree(f, p) : f[q] = g[q]

\* the running (or last) command answered its prompt with True / with False
Affirmed == gate = "returned" /\ rval = Some(TRUE)
Declined == gate = "returned" /\ rval = Some(FALSE)

\* the command found the lab and resolved its workspace directory
Resolved == expdir # <<>>

\* C3: mkexpdir on a name whose directory exists, with the prompt declined,
\* deletes nothing: the directories and their files are as they were when the
\* command started, and mkexpdir returns None.
C3_DeclinedCreateKeepsDirectory ==
    (cmd = "create" /\ Declined) =>
        /\ exists(fs0, expdir)
        /\ fs = fs0
        /\ ~Logged("rmtree")
        /\ ~Logged("makedirs")
        /\ \A i \in Positions("mkexpdir_returns") : out[i].arg = <<>>
        /\ Cardinality(Positions("mkexpdir_returns")) = 1

\* a create was declined on a directory that holds a file, and the file is there
C3_Witness ==
    /\ cmd = "create"
    /\ Declined
    /\ exists(fs0, expdir)
    /\ fs0[expdir] # {}
    /\ fs[expdir] = fs0[expdir]
    /\ Logged("mkexpdir_returns")

\* C4: mkexpdir on a name whose directory does not exist renders no prompt,
\* creates the directory together with its missing parent, and returns its path.
C4_FreshCreateDoesNotPrompt ==
    (cmd = "create" /\ Resolved /\ ~exists(fs0, expdir)) =>
        /\ ~Logged("prompt")
        /\ ~Logged("OVERWRITE_WARNING")
        /\ gate = "idle"
        /\ exists(fs, expdir)
        /\ exists(fs, dirname(expdir))
        /\ fs[expdir] = {}
        /\ \A q \in DOMAIN fs0 : exists(fs, q) /\ fs[q] = fs0[q]
        /\ out[1] = E_call("makedirs", expdir)
        /\ out[2] = E_mkexpdir_returns(Some(expdir))

\* a create made a directory whose 'experiments' parent did not exist either
C4_Witness ==
    /\ cmd = "create"
    /\ Resolved
    /\ ~exists(fs0, expdir)
    /\ ~exists(fs0, dirname(expdir))
    /\ basename(dirname(expdir)) = "experiments"
    /\ exists(fs, expdir)
    /\ exists(fs, dirname(expdir))

\* C5: mkexpdir on an existing directory, with the prompt affirmed, deletes the
\* tree and then creates the directory again: an empty directory is at the same
\* path, nothing of the old contents is left, the rest is untouched, and the
\* path is returned.
C5_AffirmedCreateRecreatesEmpty ==
    (cmd = "create" /\ Affirmed) =>
        /\ exists(fs0, expdir)
        /\ exists(fs, expdir)
        /\ fs[expdir] = {}
        /\ Tree(fs, expdir) = {expdir}
        /\ SameOutside(fs, fs0, expdir)
        /\ \E i \in 1..(Len(out) - 2) :
              /\ out[i] = E_call("rmtree", expdir)
              /\ out[i + 1] = E_call("makedirs", expdir)
              /\ out[i + 2] = E_mkexpdir_returns(Some(expdir))

\* an affirmed create emptied a directory that held a file
C5_Witness ==
    /\ cmd = "create"
    /\ Affirmed
    /\ exists(fs0, expdir)
    /\ fs0[expdir] # {}
    /\ fs[expdir] = {}

\* C6: delete_experiment on a name whose directory does not exist raises
\* FileNotFoundError before any prompt is rendered; it removes nothing and does
\* not call rmvirtualenv.
C6_DeleteMissingFailsFirst ==
    (cmd = "delete" /\ Resolved /\ ~exists(fs0, expdir)) =>
        /\ out = <<E_raise("FileNotFoundError")>>
        /\ pc = "shell"
        /\ exit_status # None
        /\ Val(exit_status) # 0
        /\ gate = "idle"
        /\ fs = fs0

\* a delete of a missing workspace ended, in a lab where another workspace exists
C6_Witness ==
    /\ cmd = "delete"
    /\ Resolved
    /\ ~exists(fs0, expdir)
    /\ \E q \in DOMAIN fs : Len(q) > Len(lab) + 1
    /\ exit_status = Some(1)

\* C7: delete_experiment on an existing workspace, with the prompt affirmed,
\* removes the whole directory tree and then calls rmvirtualenv with the same
\* name; rmvirtualenv is never called before the removal nor without an
\* affirmed prompt.
C7_AffirmedDeleteRemovesThenRmvirtualenv ==
    /\ (cmd = "delete" /\ Affirmed) =>
          /\ exists(fs0, expdir)
          /\ Tree(fs, expdir) = {}
          /\ SameOutside(fs, fs0, expdir)
          /\ \E i \in 1..(Len(out) - 1) :
                /\ out[i] = E_call("rmtree", expdir)
                /\ out[i + 1] = E_call("rmvirtualenv", <<experiment_name>>)
          /\ Cardinality(Positions("rmvirtualenv")) = 1
    /\ Logged("rmvirtualenv") =>
          /\ cmd = "delete"
          /\ Affirmed
          /\ \A j \in Positions("rmvirtualenv") : \E i \in Positions("rmtree") : i < j
    /\ pc = "rmvirtualenv" => Logged("rmvirtualenv")

\* an affirmed delete removed a directory that held a file and reached rmvirtualenv
C7_Witness ==
    /\ cmd = "delete"
    /\ Affirmed
    /\ fs0[expdir] # {}
    /\ ~exists(fs, expdir)
    /\ pc = "rmvirtualenv"

\* C8: delete_experiment on an existing workspace, with the prompt declined,
\* has no side effect: the directories and files are unchanged and
\* rmvirtualenv is not called.
C8_DeclinedDeleteNoSideEffects ==
    (cmd = "delete" /\ Declined) =>
        /\ exists(fs0, expdir)
        /\ fs = fs0
        /\ ~Logged("rmtree")
        /\ ~Logged("rmvirtualenv")
        /\ pc = "shell"

\* a delete was declined on a directory that holds a file
C8_Witness ==
    /\ cmd = "delete"
    /\ Declined
    /\ exists(fs, expdir)
    /\ fs[expdir] # {}
    /\ out[Len(out)] = E_call("print", <<"Aborting...">>)

\* mkexpdir returned None to main
MkexpdirReturnedNone == \E i \in Positions("mkexpdir_returns") : out[i].arg = <<>>

\* C9: in new_experiment.main, when mkexpdir returns None because the user
\* declined the overwrite, mkvirtualenv is not called and no hook file is
\* written.
C9_DeclinedCreateSkipsEnvironment ==
    (cmd = "create" /\ (Declined \/ MkexpdirReturnedNone)) =>
        /\ MkexpdirReturnedNone
        /\ ~Logged("mkvirtualenv")
        /\ ~Logged("write_hook")
        /\ pc = "shell"

\* a create was declined while hooks can be written (WORKON_HOME is set)
C9_Witness ==
    /\ cmd = "create"
    /\ Declined
    /\ MkexpdirReturnedNone
    /\ WORKON_HOME # None
    /\ pc = "shell"

\* an exception went up to the top level of the command
FailurePropagated == out # <<>> /\ out[Len(out)].op = "raise"

-----------------------------------------------------------------------------
(* Properties of the generated hooks *)

\* the four hooks have run in lifecycle order
HooksDone == phase = "left"

\* C11 as claimed: the four generated hooks run in lifecycle order from any
\* initial shell environment return PYTHONPATH, PROJECT_HOME and PATH to the
\* state they had before entering, a variable that was unset included, and
\* leave no shadow variable and no derived variable set.
C11_RoundTrip ==
    HooksDone =>
        /\ \A v \in LiveVars : shenv[v] = shenv0[v]
        /\ \A v \in ShadowVars \cup DerivedVars : shenv[v] = None

\* the text of a hook file of environment e
HookText(e, hook) == Val(hookfiles[e][hook]).lines

AllHooksWritten(e) == \A h \in Hooks : hookfiles[e][h] # None

IsStatement(line, c) == line # <<>> /\ line[1] = Word(c)

\* the names that the export statements of a text assign
ExportedIn(text) ==
    UNION {{text[i][k].name : k \in 2..Len(text[i])} \ {""} :
                i \in {j \in 1..Len(text) : IsStatement(text[j], "export")}}

\* the names that the unset statements of a text clear
ClearedIn(text) ==
    UNION {{Expand(text[i][k].parts, <<>>) : k \in {m \in 2..Len(text[i]) : text[i][m].name = ""}} :
                i \in {j \in 1..Len(text) : IsStatement(text[j], "unset")}}

\* the statements (line numbers) of a text that export v, that export v as
\* exactly the value of variable s, and that unset v
ExportsOf(text, v) ==
    {i \in 1..Len(text) : IsStatement(text[i], "export") /\ Assigned(text[i], v) # {}}
CopiesOf(text, v, s) ==
    {i \in ExportsOf(text, v) : \A k \in Assigned(text[i], v) : text[i][k].parts = <<Ref(s)>>}
UnsetsOf(text, v) ==
    {i \in 1..Len(text) : IsStatement(text[i], "unset") /\ Named(text[i], v) # {}}

\* the shadows of v in a text: the variables that it exports as a copy of v
ShadowsIn(text, v) == {s \in ExportedIn(text) : CopiesOf(text, s, v) # {}}

\* the statements of a text that restore v from one of the shadows in S
RestoresOf(text, v, S) == UNION {CopiesOf(text, v, s) : s \in S}

\* the variables of the base environment that the hook changes
OverriddenIn(text) == LiveVars \cap ((ExportedIn(text) \cup ClearedIn(text)))

\* an enter hook and the exit hook that undoes it
Undoes(enter, exit) ==
    /\ \A v \in ExportedIn(enter) :
            Cardinality(RestoresOf(exit, v, ShadowsIn(enter, v)) \cup UnsetsOf(exit, v)) = 1
    /\ \A v \in ClearedIn(enter) :
            /\ Cardinality(RestoresOf(exit, v, ShadowsIn(enter, v))) = 1
            /\ Cardinality(ExportsOf(exit, v)) = 1
    /\ \A v \in OverriddenIn(enter) :
            /\ Cardinality(ShadowsIn(enter, v)) = 1
            /\ Cardinality(ExportsOf(exit, v)) = 1
            /\ \A w \in OverriddenIn(enter) \ {v} : ShadowsIn(enter, v) \cap ShadowsIn(enter, w) = {}

\* C12: every variable that postactivate overrides or exports has exactly one
\* restore-from-shadow or unset statement in predeactivate, every variable
\* that preactivate clears has exactly one restore statement in
\* postdeactivate, and each overridden variable has exactly one shadow.
C12_HooksSymmetric ==
    \A e \in venvs :
        AllHooksWritten(e) =>
            /\ Undoes(HookText(e, "postactivate"), HookText(e, "predeactivate"))
            /\ Undoes(HookText(e, "preactivate"), HookText(e, "postdeactivate"))
            /\ ExportedIn(HookText(e, "postactivate")) =
                    {"PROJECT_HOME", "PATH", "_BASEENV_PROJECT_HOME", "_BASEENV_PATH"}
                        \cup DerivedVars
            /\ ClearedIn(HookText(e, "preactivate")) = {"PYTHONPATH"}

\* the environment has been entered through its generated hooks, which have
\* overridden PROJECT_HOME and PATH and exported the derived variables
C12_Witness ==
    /\ phase = "active"
    /\ \E e \in venvs : AllHooksWritten(e)
    /\ shenv["PROJECT_HOME"] # shenv0["PROJECT_HOME"]
    /\ shenv["PATH"] # shenv0["PATH"]
    /\ \A v \in DerivedVars : shenv[v] # None

\* the workspace root as the hooks of the environment were generated with it
RootStr == PathStr(lab)

\* C13 as claimed: after the postactivate hook has run in a shell,
\* PROJECT_HOME equals the workspace root, PATH equals '<root>/VAL:' followed
\* by the prior PATH, DOWNWARD_BENCHMARKS equals '<root>/benchmarks' and
\* DOWNWARD_REPO equals '<root>/fast-downward'.
C13_PostactivateExports ==
    phase = "active" =>
        /\ shenv["PROJECT_HOME"] = Some(RootStr)
        /\ shenv["PATH"] = Some(RootStr \o "/VAL:" \o Deref(shenv0, "PATH"))
        /\ shenv["DOWNWARD_BENCHMARKS"] = Some(RootStr \o "/benchmarks")
        /\ shenv["DOWNWARD_REPO"] = Some(RootStr \o "/fast-downward")

\* there are statements S and statements T, and every one of S comes on an
\* earlier line than every one of T
AllBefore(S, T) == S # {} /\ T # {} /\ \A i \in S : \A j \in T : i < j

\* text copies v into shadow s before it overrides or unsets v
SavedBeforeLost(text, v, s) ==
    AllBefore(CopiesOf(text, s, v), ExportsOf(text, v) \cup UnsetsOf(text, v))

\* text restores v from shadow s before it unsets s
RestoredBeforeDropped(text, v, s) ==
    AllBefore(CopiesOf(text, v, s), UnsetsOf(text, s))

\* C20: in every generated hook a value is saved before it is lost:
\* preactivate copies PYTHONPATH into its shadow before unsetting it;
\* postactivate copies PROJECT_HOME and PATH into their shadows before
\* overriding them; predeactivate restores PROJECT_HOME and PATH from their
\* shadows before unsetting the shadows and unsets the two derived variables
\* only after both restorations; postdeactivate restores PYTHONPATH from its
\* shadow before unsetting the shadow.  A shell that sources the hooks finds
\* the saved values in the shadows.
C20_SavedBeforeLost ==
    /\ \A e \in venvs :
        AllHooksWritten(e) =>
            /\ SavedBeforeLost(HookText(e, "preactivate"), "PYTHONPATH", "_BASEENV_PYTHONPATH")
            /\ SavedBeforeLost(HookText(e, "postactivate"), "PROJECT_HOME", "_BASEENV_PROJECT_HOME")
            /\ SavedBeforeLost(HookText(e, "postactivate"), "PATH", "_BASEENV_PATH")
            /\ RestoredBeforeDropped(HookText(e, "predeactivate"), "PROJECT_HOME", "_BASEENV_PROJECT_HOME")
            /\ RestoredBeforeDropped(HookText(e, "predeactivate"), "PATH", "_BASEENV_PATH")
            /\ \A d \in DerivedVars :
                    AllBefore(CopiesOf(HookText(e, "predeactivate"), "PROJECT_HOME", "_BASEENV_PROJECT_HOME")
                                \cup CopiesOf(HookText(e, "predeactivate"), "PATH", "_BASEENV_PATH"),
                              UnsetsOf(HookText(e, "predeactivate"), d))
            /\ RestoredBeforeDropped(HookText(e, "postdeactivate"), "PYTHONPATH", "_BASEENV_PYTHONPATH")
    /\ (phase = "entering" /\ preactivate_sourced) =>
            /\ shenv["_BASEENV_PYTHONPATH"] = Some(Deref(shenv0, "PYTHONPATH"))
            /\ shenv["PYTHONPATH"] = None
    /\ phase = "active" =>
            /\ shenv["_BASEENV_PROJECT_HOME"] = Some(Deref(shenv0, "PROJECT_HOME"))
            /\ shenv["_BASEENV_PATH"] = Some(Deref(shenv0, "PATH"))
    /\ phase = "leaving" =>
            /\ shenv["PROJECT_HOME"] = Some(Deref(shenv0, "PROJECT_HOME"))
            /\ shenv["PATH"] = Some(Deref(shenv0, "PATH"))
            /\ \A v \in DerivedVars \cup {"_BASEENV_PROJECT_HOME", "_BASEENV_PATH"} : shenv[v] = None
    /\ (phase = "left" /\ preactivate_sourced) =>
            /\ shenv["PYTHONPATH"] = Some(Deref(shenv0, "PYTHONPATH"))
            /\ shenv["_BASEENV_PYTHONPATH"] = None

\* a shell whose three variables were set has sourced the four hooks and has
\* the three values back, with no shadow left
C20_Witness ==
    /\ phase = "left"
    /\ preactivate_sourced
    /\ \A v \in LiveVars : shenv0[v] # None /\ Val(shenv0[v]) # "" /\ shenv[v] = shenv0[v]
    /\ \A s \in ShadowVars : shenv[s] = None

-----------------------------------------------------------------------------
(* Properties of hook generation *)

\* a create of a name whose directory did not exist has ended with status 0
FreshCreateSucceeded ==
    /\ cmd = "create"
    /\ pc = "shell"
    /\ exit_status = Some(0)
    /\ Resolved
    /\ ~exists(fs0, expdir)

\* the steps of a successful fresh create, on directory dir: the directory is
\* made, mkvirtualenv is called with the name, the four hook files are
\* written in the order of 'hooks', and nothing else happens; the
\* preactivate file starts with the '#!' line and is executable
CreatedInOrder(dir) ==
    /\ expdir = dir
    /\ exists(fs, dir)
    /\ out = <<E_call("makedirs", dir),
               E_mkexpdir_returns(Some(dir)),
               E_call("mkvirtualenv", <<experiment_name>>)>>
                \o [i \in 1..Len(hooks) |-> E_call("write_hook", <<experiment_name, hooks[i]>>)]
    /\ Len(hooks) = 4
    /\ Hooks = {"preactivate", "postactivate", "predeactivate", "postdeactivate"}
    /\ experiment_name \in venvs
    /\ AllHooksWritten(experiment_name)
    /\ HookText(experiment_name, "preactivate")[1] = shebang[1]
    /\ Val(hookfiles[experiment_name]["preactivate"]).executable

\* C14 as claimed: a successful create of a fresh name creates
\* '<root>/experiments/<name>', then calls environment creation with the name,
\* then writes exactly the four hook files; preactivate starts with an
\* interpreter directive line and is executable.
C14_Original ==
    FreshCreateSucceeded =>
        CreatedInOrder(join(join(lab, "experiments"), experiment_name))

\* C14 amended: a successful create of a fresh name creates
\* '<root>/experiments/<name>', or '<root>/<name>' when the basename of root is
\* 'experiments', then calls environment creation with the name, then writes
\* exactly the four hook files; preactivate starts with an interpreter
\* directive line and is executable.
C14_FreshCreateSequence ==
    FreshCreateSucceeded =>
        CreatedInOrder(IF basename(lab) = "experiments"
                       THEN join(lab, experiment_name)
                       ELSE join(join(lab, "experiments"), experiment_name))

\* a fresh create succeeded in a root that is itself called 'experiments'
C14_Witness ==
    /\ FreshCreateSucceeded
    /\ basename(lab) = "experiments"
    /\ expdir = join(lab, experiment_name)
    /\ Count(out, "write_hook") = 4

\* the text of hook h after one run of generate_virtualenvwrapper_hooks in a
\* hook directory that had no such file
SingleRunText(h) == Val(write_hook(None, h, lab, TRUE, h \in EXECUTABLE)).lines

\* C15: however many times the hooks of an environment have been generated,
\* each hook file holds exactly the content that a single run produces.
C15_HooksOverwritten ==
    \A e \in Names : \A h \in Hooks :
        hookfiles[e][h] # None => HookText(e, h) = SingleRunText(h)

\* a create has generated the four hooks of an environment that had all four
\* of them from an earlier run
C15_Witness ==
    /\ cmd = "create"
    /\ pc = "shell"
    /\ exit_status = Some(0)
    /\ \A h \in Hooks : hookfiles0[experiment_name][h] # None
    /\ \A h \in Hooks : hookfiles[experiment_name][h] # None
    /\ Count(out, "write_hook") = Len(hooks)

-----------------------------------------------------------------------------
(* Properties of Prompt.__init__ *)

RECURSIVE TrailingSpaces(_)
\* the number of blanks that a string ends in
TrailingSpaces(t) ==
    IF endswith(t, SPACE) THEN 1 + TrailingSpaces(SubSeq(t, 1, Len(t) - 1)) ELSE 0

\* C16 as claimed: the rendered prompt text ends in exactly one space for
\* every display string: a string with no trailing space gets one appended,
\* and no rendered prompt ends in two or more spaces.
C16_Original ==
    prompt_text # None =>
        /\ TrailingSpaces(Val(prompt_text)) = 1
        /\ ~endswith(prompt_arg, SPACE) => Val(prompt_text) = prompt_arg \o SPACE

\* C16 amended: the rendered prompt text ends in at least one space: a string
\* with no trailing space gets exactly one appended, and a string that ends in
\* a space is rendered unchanged, with as many trailing spaces as it had.
C16_TrailingSpace ==
    prompt_text # None =>
        /\ TrailingSpaces(Val(prompt_text)) >= 1
        /\ ~endswith(prompt_arg, SPACE) =>
                /\ Val(prompt_text) = prompt_arg \o SPACE
                /\ TrailingSpaces(Val(prompt_text)) = 1
        /\ endswith(prompt_arg, SPACE) => Val(prompt_text) = prompt_arg

\* a display string that ends in two blanks has been rendered
C16_Witness ==
    /\ prompt_text # None
    /\ endswith(prompt_arg, SPACE \o SPACE)
    /\ TrailingSpaces(Val(prompt_text)) >= 2

-----------------------------------------------------------------------------
(* Properties of path resolution *)

\* the workspace directory of a name as the claim gives it
WorkspacePath(root, name) ==
    IF basename(root) = "experiments"
    THEN join(root, name)
    ELSE join(join(root, "experiments"), name)

\* C17 as claimed: for every root and name, create and delete resolve the same
\* directory: '<root>/experiments/<name>', or '<root>/<name>' when the basename
\* of root is 'experiments'.
C17_SamePath ==
    (cmd \in {"create", "delete"} /\ Resolved) =>
        expdir = WorkspacePath(lab, experiment_name)

-----------------------------------------------------------------------------
(* Properties of the form of the hook files *)

\* the hook file is a program of its own: it starts with the '#!' line and
\* has executable permission
IsProgram(e, h) ==
    /\ HookText(e, h)[1] = shebang[1]
    /\ Val(hookfiles[e][h]).executable

\* the hook file is a plain script: neither '#!' line nor executable permission
IsPlainScript(e, h) ==
    /\ HookText(e, h)[1] # shebang[1]
    /\ ~Val(hookfiles[e][h]).executable

\* C21 as claimed: of the generated hook files, preactivate and predeactivate
\* are written as executables (interpreter directive plus executable
\* permission), postactivate and postdeactivate as plain sourced scripts.
C21_Original ==
    \A e \in Names : \A h \in Hooks :
        hookfiles[e][h] # None =>
            IF h \in {"preactivate", "predeactivate"} THEN IsProgram(e, h) ELSE IsPlainScript(e, h)

\* C21 amended: of the generated hook files, only preactivate is written as an
\* executable (interpreter directive plus executable permission);
\* postactivate, predeactivate and postdeactivate are written as plain
\* scripts without them.
C21_OnlyPreactivateExecutable ==
    \A e \in Names : \A h \in Hooks :
        hookfiles[e][h] # None =>
            IF h = "preactivate" THEN IsProgram(e, h) ELSE IsPlainScript(e, h)

\* a create has written all four hooks, and predeactivate is a plain script
C21_Witness ==
    /\ cmd = "create"
    /\ pc = "shell"
    /\ exit_status = Some(0)
    /\ AllHooksWritten(experiment_name)
    /\ IsProgram(experiment_name, "preactivate")
    /\ IsPlainScript(experiment_name, "predeactivate")

-----------------------------------------------------------------------------
(* Properties of the external environment command *)

\* the command got as far as calling the external command op
Called(op) == Logged(op)

\* the last thing the command did was to raise exception exc
Raised(exc) == out # <<>> /\ out[Len(out)] = E_raise(exc)

\* C22: a non-zero exit of the external environment command is a hard
\* failure of the calling operation.  When mkvirtualenv fails in create, the
\* failure propagates (the command ends with status 1) and no hook file is
\* written; when rmvirtualenv fails in delete, the failure propagates.  A
\* command that called the external command ends with status 0 only if the
\* environment was created, respectively removed.
C22_EnvFailurePropagates ==
    /\ (cmd = "create" /\ Raised("CalledProcessError")) =>
            /\ Called("mkvirtualenv")
            /\ pc = "shell"
            /\ exit_status = Some(1)
            /\ ~Logged("write_hook")
            /\ hookfiles = hookfiles0
    /\ (cmd = "delete" /\ Raised("CalledProcessError")) =>
            /\ Called("rmvirtualenv")
            /\ pc = "shell"
            /\ exit_status = Some(1)
    /\ (cmd = "create" /\ Called("mkvirtualenv") /\ pc = "shell" /\ experiment_name \notin venvs) =>
            /\ Raised("CalledProcessError")
            /\ exit_status = Some(1)
            /\ ~Logged("write_hook")
    /\ (cmd = "delete" /\ Called("rmvirtualenv") /\ pc = "shell" /\ experiment_name \in venvs) =>
            /\ Raised("CalledProcessError")
            /\ exit_status = Some(1)

\* mkvirtualenv failed in a create for a name that had no environment
C22_Witness ==
    /\ cmd = "create"
    /\ Called("mkvirtualenv")
    /\ Raised("CalledProcessError")
    /\ experiment_name \notin venvs
    /\ exit_status = Some(1)
    /\ hookfiles[experiment_name] = NoHooks

-----------------------------------------------------------------------------
(* Properties of downwardlab_home *)

\* directory d exists and holds both landmark subdirectories, each with its
\* landmark file
Qualifies(d) ==
    /\ exists(fs, d)
    /\ markers_at(d).downward = "file"
    /\ markers_at(d).val = "file"

\* the start itself and its ancestors
SelfAndAncestors(path) == {SubSeq(path, 1, i) : i \in 0..Len(path)}

\* the start itself and the ancestors that the upward walk meets: it walks
\* from parent to parent for as long as the parent exists
SelfAndWalked(path) ==
    {d \in SelfAndAncestors(path) :
        d = path \/ \A i \in Len(d)..(Len(path) - 1) : exists(fs, SubSeq(path, 1, i))}

\* rv is the nearest qualifying directory of D, or None when D has none
NearestOf(D, rv) ==
    LET Q == {d \in D : Qualifies(d)} IN
    IF Q = {} THEN rv = None
    ELSE /\ rv # None
         /\ Val(rv) \in Q
         /\ \A d \in Q : Len(d) <= Len(Val(rv))

\* C23 as claimed: downwardlab_home returns the nearest directory among the
\* start and its ancestors that holds both marker subdirectories with their
\* marker files, skips no qualifying directory closer to the start, and fails
\* with the root-not-found error when none qualifies.
C23_Original ==
    home_called => NearestOf(SelfAndAncestors(home_path), home_rval)

\* C23 amended: the same, among the start and the ancestors reached by
\* walking upward while the parent directory exists; a starting path whose
\* parent does not exist fails with the root-not-found error whatever its
\* higher ancestors hold.
C23_NearestWalkedAncestor ==
    home_called =>
        /\ NearestOf(SelfAndWalked(home_path), home_rval)
        /\ exists(fs, home_path) => NearestOf(SelfAndAncestors(home_path), home_rval)
        /\ (home_path # <<>> /\ ~exists(fs, dirname(home_path))) => home_rval = None

\* the call was started below a qualifying directory whose parent qualifies
\* too, passed a directory that has the landmark names but not both files, and
\* returned the nearer of the two
C23_Witness ==
    /\ home_called
    /\ home_rval # None
    /\ Len(home_path) - Len(Val(home_rval)) >= 2
    /\ Len(Val(home_rval)) >= 1
    /\ Qualifies(dirname(Val(home_rval)))
    /\ markers_at(dirname(home_path)).val = "dirfile"

-----------------------------------------------------------------------------
(* Properties of the destructive steps *)

\* the step removes a directory or a file, or calls the removal of a tree
Deletes ==
    \/ \E q \in DOMAIN fs : q \notin DOMAIN fs' \/ fs'[q] # fs[q]
    \/ Count(out', "rmtree") > Count(out, "rmtree")

\* the gate has returned True for a response that matches an affirmative token
AffirmedByUser == Affirmed /\ response # None /\ MatchesSome(Val(response), affirmative)

\* the gate of the running (or last) command gave up after max_attempts
\* invalid responses
Exhausted == cmd \in {"create", "delete"} /\ gate = "raised"

\* the command ended with the failure of the gate and touched nothing: no
\* directory or file changed, neither mkvirtualenv nor rmvirtualenv was
\* called, no hook file was written
EndedUntouched ==
    /\ pc = "shell"
    /\ exit_status = Some(1)
    /\ Raised("AssertionError")
    /\ fs = fs0
    /\ hookfiles = hookfiles0
    /\ \A op \in {"rmtree", "makedirs", "mkvirtualenv", "rmvirtualenv", "write_hook"} : ~Logged(op)

\* C24: in create and in delete a workspace directory is deleted only by a
\* step that leaves the gate returned with True; when the gate ends with its
\* attempts exhausted, the failure propagates, the existing directory and its
\* contents are unchanged, and neither mkvirtualenv / rmvirtualenv nor hook
\* generation is invoked.
C24_DeleteOnlyWhenAffirmed ==
    /\ [](Exhausted => EndedUntouched)
    /\ [][Deletes => AffirmedByUser']_vars

\* the overwrite prompt of a create was answered three times with something
\* else than yes or no, on a directory that holds files
C24_Witness ==
    /\ cmd = "create"
    /\ gate = "raised"
    /\ ResponsesRead = OVERWRITE_MAX_ATTEMPTS
    /\ exists(fs, expdir)
    /\ fs[expdir] # {}
    /\ Raised("AssertionError")

====
